---- MODULE Spec2Model ----
(***************************************************************************)
(* Refresh and caching core of salty-ocean-api: the station aggregator     *)
(* (getStationData), the buoy fetcher (NDBCService.fetchBuoyData), the     *)
(* per-station fill of the bulk prefetcher (processBatch), the cache       *)
(* store, and the two timer chains that start prefetch cycles              *)
(* (startupService.scheduleNextPrefetch, scheduler.scheduleNextPrefetch).  *)
(*                                                                         *)
(* An action runs one handler from one wait on the network or on a timer   *)
(* to the next one, as the Node event loop does.  Coordinates are integers *)
(* in units of 1e-5 degree.                                                *)
(***************************************************************************)
EXTENDS Integers, Sequences, FiniteSets, TLC

VARIABLES
  stations,     \* NDBCService.stations: the catalogue loaded at startup
  cache,        \* the cache store: key -> value or NoEntry
  inFlight,     \* keys whose get-or-fill with an asynchronous producer is running
  req,          \* one record per request slot: a getStationData call
  pf,           \* one record per catalogue station in bounds: processBatch's fill
  upstream,     \* upstream HTTP exchanges in flight
  last,         \* what the getStationData call that ended last gave its caller
  now,          \* wall clock, in ticks of TickMinutes since 00:00 UTC
  initStatus,   \* app.js initStatus.status
  chain,        \* the two timer chains: state, fire time, cycle age
  prefetchTimer,\* scheduler.js prefetchTimer: "null" or "set"
  stopped,      \* stopScheduler has been called
  clock,        \* the instant new Date() gives: seconds since 00:00:00 UTC
  out,          \* what the function applied last computed
  point,        \* the (lat, lon) handed to the wave-model functions
  cyc,          \* one record per timer chain: its call of prefetchAllBuoyData
  currentStatus,\* buoyPrefetchService.js currentStatus, shared by all calls
  data          \* the upstream data handed to the parsers: rows or samples

vars == <<stations, cache, inFlight, req, pf, upstream, last, now, initStatus, chain,
          prefetchTimer, stopped, clock, out, point, cyc, currentStatus,
          data>>

aggVars == <<stations, cache, inFlight, req, pf, upstream, last>>
schedVars == <<now, initStatus, chain, prefetchTimer, stopped>>
clockVars == <<clock, out>>
gridVars == <<point>>
cycVars == <<cyc, currentStatus>>
dataVars == <<data>>

----------------------------------------------------------------------------
(* Bounds of the model *)

MaxReq == 2
MaxCycleTicks == 2
MaxStations == 17
MaxOverlapStations == 2
MsStep == 500
MaxRows == 3

----------------------------------------------------------------------------
(* Static configuration: config/waveModelConfig.js *)

Models ==
  << [id |-> "pacific",  name |-> "wcoast.0p16",
      latSize |-> 151, latStart |-> 2500000, latEnd |-> 5000005,
      lonSize |-> 241, lonStart |-> 21000000, lonEnd |-> 25000008],
     [id |-> "atlantic", name |-> "atlocn.0p16",
      latSize |-> 331, latStart |-> 0, latEnd |-> 5500011,
      lonSize |-> 301, lonStart |-> 26000000, lonEnd |-> 31000010],
     [id |-> "gulf",     name |-> "gulfmex.0p16",
      latSize |-> 151, latStart |-> 1500000, latEnd |-> 4000011,
      lonSize |-> 181, lonStart |-> 26000000, lonEnd |-> 29000010] >>

\* grid.lat.resolution and grid.lon.resolution of every model, 0.166667 degree,
\* in units of 1e-6 degree
Resolution == 166667

\* getPointForecast lines 106-126: the variables of the request
Variables ==
  << "htsgwsfc", "perpwsfc", "dirpwsfc", "swdir_1", "swdir_2", "swdir_3",
     "swell_1", "swell_2", "swell_3", "swper_1", "swper_2", "swper_3",
     "wvdirsfc", "wvhgtsfc", "wvpersfc", "windsfc", "wdirsfc", "ugrdsfc",
     "vgrdsfc" >>

\* CONFIG.forecast
ForecastDays == 7
PeriodsPerDay == 8

\* Stations of ndbc-stations.geojson: one inside a model grid, one outside all
\* of them.
KnownStations ==
  { [id |-> "44098", lat |-> 4280000, lon |-> -7017000],
    [id |-> "51201", lat |-> 2167000, lon |-> -15812000] }

\* The catalogues loadStations may have loaded: each leaves one of the two ids
\* unknown to the service.
Catalogues == {{s} : s \in KnownStations}

\* Station ids a client may ask for, in the catalogue or not.
RequestIds == {s.id : s \in KnownStations}

\* buoyPrefetchService.js lines 8-10
BATCH_SIZE == 5
BATCH_DELAY == 1000
CONCURRENT_BATCHES == 3

\* CONFIG.request.maxRetries
MaxRetries == 3

NoEntry == [kind |-> "none"]
NoStation == [id |-> "undefined"]

----------------------------------------------------------------------------
(* Pure helpers *)

normalizeLon(lon) == IF lon < 0 THEN lon + 36000000 ELSE lon

ModelContains(m, lat, lon) ==
  /\ lat >= m.latStart
  /\ lat <= m.latEnd
  /\ normalizeLon(lon) >= m.lonStart
  /\ normalizeLon(lon) <= m.lonEnd

\* findModelForLocation with the models searched from the last to the first
findModelForLocation_LastMatch(lat, lon) ==
  LET found == {i \in 1..Len(Models) : ModelContains(Models[i], lat, lon)}
  IN IF found = {}
     THEN [threw |-> TRUE, message |-> <<"outside all model bounds", lat, lon>>]
     ELSE [threw |-> FALSE,
           model |-> Models[CHOOSE i \in found : \A j \in found : i >= j]]

\* findModelForLocation: the first model of CONFIG.models whose rectangle
\* holds the point, or the Error it throws, whose message carries lat and lon
\* as given.
findModelForLocation(lat, lon) ==
  LET found == {i \in 1..Len(Models) : ModelContains(Models[i], lat, lon)}
  IN IF found = {}
     THEN [threw |-> TRUE, message |-> <<"outside all model bounds", lat, lon>>]
     ELSE [threw |-> FALSE,
           model |-> Models[CHOOSE i \in found : \A j \in found : i <= j]]

\* Math.round(a / b) for b > 0: the nearest integer, halves upwards
Round(a, b) == (2 * a + b) \div (2 * b)

\* getGridLocation with latIdx = Math.round((lat - start) / resolution) + 1
getGridLocation_OffByOne(lat, lon, model) ==
  [latIdx |-> Round((lat - model.latStart) * 10, Resolution) + 1,
   lonIdx |-> Round((normalizeLon(lon) - model.lonStart) * 10, Resolution)]

\* getGridLocation: lat and lon in 1e-5 degree, the quotient in 1e-6 degree
getGridLocation(lat, lon, model) ==
  [latIdx |-> Round((lat - model.latStart) * 10, Resolution),
   lonIdx |-> Round((normalizeLon(lon) - model.lonStart) * 10, Resolution)]

isStationInModelBounds(station) ==
  \E i \in 1..Len(Models) : ModelContains(Models[i], station.lat, station.lon)

getStationById(stationId) ==
  IF \E s \in stations : s.id = stationId
  THEN CHOOSE s \in stations : s.id = stationId
  ELSE NoStation

\* getCacheConfig(type, identifier).key
CacheKey(type, identifier) ==
  IF type = "buoyData" THEN <<"ndbc_buoy", identifier>>
  ELSE IF type = "waveModel" THEN <<"wave_model", identifier>>
  ELSE <<identifier>>

\* fetchBuoyData's cacheKey
FetchBuoyKey(buoyId) == <<"ndbc_buoy", buoyId>>

\* prefetchAllBuoyData line 185: ndbcService.stations.filter(isStationInModelBounds)
StationsInBounds == {s \in stations : isStationInModelBounds(s)}

Keys ==
  {CacheKey("buoyData", id) : id \in RequestIds} \cup
  {FetchBuoyKey(id) : id \in RequestIds} \cup
  {CacheKey("waveModel", <<s.lat, normalizeLon(s.lon)>>) : s \in KnownStations} \cup
  {CacheKey("waveModel", <<s.lat, s.lon>>) : s \in KnownStations}

----------------------------------------------------------------------------
(* Values held by the cache and returned to callers *)

\* combinedData of fetchBuoyData: the raw observation object
Observation == [kind |-> "observation"]

\* {forecasts, metadata}: what getPointForecast returns
PointForecast(hasPeriods) ==
  [kind |-> "forecast", shape |-> "forecasts", periods |-> hasPeriods]

\* {metadata, days}: the forecast getStationData builds, grouped by date
GroupedForecast == [kind |-> "forecast", shape |-> "days", periods |-> TRUE]

NoError == [statusCode |-> 0]
ForecastError(code) == [statusCode |-> code]

\* AppError(statusCode, ...) and any other exception (statusCode 500 in errorHandler)
Failure(code) == [kind |-> "error", statusCode |-> code]

\* forecast?.days?.length > 0
HasDays(forecast) ==
  forecast.kind = "forecast" /\ forecast.shape = "days" /\ forecast.periods

\* A variant of ComposeResponse that lets a forecast failure fail the request.
ComposeResponse_ForecastFatal(stationId, stationData, forecast, forecastError) ==
  IF stationData.kind # "observation" \/ forecastError # NoError
  THEN Failure(500)
  ELSE [kind |-> "envelope",
        id |-> stationId,
        observations |-> TRUE,
        units |-> TRUE,
        forecast |-> IF HasDays(forecast) THEN "days" ELSE "absent",
        errorCode |-> 0]

\* The response object of getStationData (lines 146-195).  Reading
\* stationData.wind.speed throws a TypeError when stationData is not an
\* observation object.
ComposeResponse(stationId, stationData, forecast, forecastError) ==
  IF stationData.kind # "observation"
  THEN Failure(500)
  ELSE [kind |-> "envelope",
        id |-> stationId,
        observations |-> TRUE,
        units |-> TRUE,
        forecast |->
          IF HasDays(forecast) THEN "days"
          ELSE IF forecastError # NoError THEN "error" ELSE "absent",
        errorCode |->
          IF HasDays(forecast) THEN 0 ELSE forecastError.statusCode]

----------------------------------------------------------------------------
(* The cache store (utils/cache) *)

\* getCache(key), and getOrSet(key) called without a producer
getCache(c, key) == c[key]

\* getOrSet(key, producer, ttl) with a synchronous producer: a fresh entry is
\* kept, otherwise the produced value is stored.
getOrSet(c, key, value) ==
  IF c[key].kind # "none" THEN c ELSE [c EXCEPT ![key] = value]

\* A get-or-fill on a key whose fill is in flight waits for that fill.
NotFilling(key) == key \notin inFlight

clearCache(c) == [k \in Keys |-> NoEntry]

----------------------------------------------------------------------------
(* Upstream exchanges *)

\* One exchange with the observation service (the .txt and .spec requests that
\* fetchBuoyData issues together) or with the forecast service.
Exchange(by, n, kind, id) == [by |-> by, n |-> n, kind |-> kind, id |-> id]

Reqs == 1..MaxReq

\* attempts counts the requests getPointForecast has sent for this call.
IdleReq == [pc |-> "idle", id |-> "", obs |-> NoEntry, buoy |-> "none", attempts |-> 0]

NoCall == [id |-> "", result |-> NoEntry, fromCache |-> FALSE,
           buoy |-> "none", fcst |-> "none"]

\* No time function has been applied yet.
NoOut == [fn |-> "none"]

----------------------------------------------------------------------------
(* Station aggregator: getStationData *)

\* getStationData returns result (or throws it) to its caller.
Returned(id, result, hit, buoy, fcst) ==
  [id |-> id, result |-> result, fromCache |-> hit, buoy |-> buoy, fcst |-> fcst]

\* Lines 146-200: compose the response, getOrSet it under the station's key and
\* return it.  c and up are the cache and the exchanges as the step leaves them.
ComposeAndReturn(r, id, stationData, forecast, forecastError, buoy, fcst, c, up) ==
  LET response == ComposeResponse(id, stationData, forecast, forecastError)
      key == CacheKey("buoyData", id)
  IN /\ response.kind # "error" => NotFilling(key)
     /\ req' = [req EXCEPT ![r] = IdleReq]
     /\ last' = Returned(id, response, FALSE, buoy, fcst)
     /\ cache' = IF response.kind = "error" THEN c ELSE getOrSet(c, key, response)
     /\ upstream' = up

\* Lines 37-84: with the buoy data in hand, look the station up and get its
\* forecast from the cache or start fetching it.
AfterBuoy(r, id, stationData, buoy, c, up) ==
  LET stationMetadata == getStationById(id) IN
  IF stationMetadata.id = NoStation.id
  THEN ComposeAndReturn(r, id, stationData, NoEntry, NoError, buoy, "none", c, up)
  ELSE
    LET lat == stationMetadata.lat
        normalizedLon == normalizeLon(stationMetadata.lon)
        forecastKey == CacheKey("waveModel", <<lat, normalizedLon>>)
        forecast == getCache(c, forecastKey)
    IN IF forecast.kind # "none"
       THEN ComposeAndReturn(r, id, stationData, forecast, NoError, buoy, "hit", c, up)
       ELSE IF findModelForLocation(lat, normalizedLon).threw
       THEN ComposeAndReturn(r, id, stationData, NoEntry, ForecastError(500),
                             buoy, "outOfGrid", c, up)
       ELSE /\ req' = [req EXCEPT ![r] = [pc |-> "forecast", id |-> id,
                                          obs |-> stationData, buoy |-> buoy,
                                          attempts |-> 1]]
            /\ cache' = c
            /\ upstream' = up \cup {Exchange("req", r, "wave", id)}
            /\ UNCHANGED last

\* A variant of GetStationData that does not look into the cache first.
GetStationData_NoLookup(r, id) ==
  /\ req[r].pc = "idle"
  /\ \A q \in Reqs : q < r => req[q].pc # "idle"
  /\ req' = [req EXCEPT ![r] = [IdleReq EXCEPT !.pc = "buoy", !.id = id]]
  /\ upstream' = upstream \cup {Exchange("req", r, "buoy", id)}
  /\ UNCHANGED <<cache, last>>
  /\ UNCHANGED <<inFlight, pf>>
  /\ UNCHANGED <<stations, schedVars, clockVars, gridVars, cycVars, dataVars>>

\* Lines 11-35 and fetchBuoyData lines 480-497: serve the cached value, or
\* start the buoy fetch.
GetStationData(r, id) ==
  /\ req[r].pc = "idle"
  /\ \A q \in Reqs : q < r => req[q].pc # "idle"   \* a call takes the first free slot
  /\ LET cachedData == getCache(cache, CacheKey("buoyData", id))
         fetchCached == getCache(cache, FetchBuoyKey(id))
     IN IF cachedData.kind # "none"
        THEN /\ last' = Returned(id, cachedData, TRUE, "none", "none")
             /\ UNCHANGED <<req, cache, upstream>>
        ELSE IF fetchCached.kind # "none"
        THEN AfterBuoy(r, id, fetchCached, "cached", cache, upstream)
        ELSE /\ req' = [req EXCEPT ![r] = [IdleReq EXCEPT !.pc = "buoy", !.id = id]]
             /\ upstream' = upstream \cup {Exchange("req", r, "buoy", id)}
             /\ UNCHANGED <<cache, last>>
  /\ UNCHANGED <<inFlight, pf>>
  /\ UNCHANGED <<stations, schedVars, clockVars, gridVars, cycVars, dataVars>>

\* fetchMetData/fetchSpectralData answer; fetchBuoyData lines 499-533, then
\* getStationData lines 37-84.  outcome: "ok" an observation was parsed,
\* "nodata" no valid observation row, "neterr" a network error or a 5xx.
BuoyResponse(r, outcome) ==
  /\ req[r].pc = "buoy"
  /\ LET id == req[r].id
         up == upstream \ {Exchange("req", r, "buoy", id)}
         combinedData == Observation
     IN IF outcome = "ok"
        THEN /\ NotFilling(FetchBuoyKey(id))
             /\ AfterBuoy(r, id, combinedData, outcome,
                          getOrSet(cache, FetchBuoyKey(id), combinedData), up)
        ELSE /\ req' = [req EXCEPT ![r] = IdleReq]
             /\ last' = Returned(id, Failure(404), FALSE, outcome, "none")
             /\ upstream' = up
             /\ UNCHANGED cache
  /\ UNCHANGED <<inFlight, pf>>
  /\ UNCHANGED <<stations, schedVars, clockVars, gridVars, cycVars, dataVars>>

\* Lines 27-32: the 10 s timer of the race rejects and getStationData throws;
\* the fetchBuoyData it started keeps running.
BuoyTimeout(r) ==
  /\ req[r].pc = "buoy"
  /\ req' = [req EXCEPT ![r].pc = "abandoned"]
  /\ last' = Returned(req[r].id, Failure(504), FALSE, "timeout", "none")
  /\ upstream' = (upstream \ {Exchange("req", r, "buoy", req[r].id)})
                   \cup {Exchange("orphan", r, "buoy", req[r].id)}
  /\ UNCHANGED <<cache, inFlight, pf>>
  /\ UNCHANGED <<stations, schedVars, clockVars, gridVars, cycVars, dataVars>>

\* A fetchBuoyData whose caller timed out completes (lines 499-533).
AbandonedBuoyResponse(r, outcome) ==
  /\ req[r].pc = "abandoned"
  /\ req' = [req EXCEPT ![r] = IdleReq]
  /\ upstream' = upstream \ {Exchange("orphan", r, "buoy", req[r].id)}
  /\ IF outcome = "ok"
     THEN /\ NotFilling(FetchBuoyKey(req[r].id))
          /\ cache' = getOrSet(cache, FetchBuoyKey(req[r].id), Observation)
     ELSE UNCHANGED cache
  /\ UNCHANGED <<inFlight, pf, last>>
  /\ UNCHANGED <<stations, schedVars, clockVars, gridVars, cycVars, dataVars>>

\* getPointForecast answers; lines 86-128, then 146-200.  outcome: "ok" a
\* forecast with periods, "empty" a body without periods, "error" axios threw.
ForecastResponse(r, outcome) ==
  /\ req[r].pc = "forecast"
  /\ LET id == req[r].id
         st == getStationById(id)
         forecastKey == CacheKey("waveModel", <<st.lat, normalizeLon(st.lon)>>)
         up == upstream \ {Exchange("req", r, "wave", id)}
     IN CASE outcome = "ok" ->
               /\ NotFilling(forecastKey)
               /\ ComposeAndReturn(r, id, req[r].obs, GroupedForecast, NoError,
                                   req[r].buoy, outcome,
                                   getOrSet(cache, forecastKey, GroupedForecast), up)
          [] outcome = "empty" ->
               ComposeAndReturn(r, id, req[r].obs, NoEntry, NoError,
                                req[r].buoy, outcome, cache, up)
          [] OTHER ->
               ComposeAndReturn(r, id, req[r].obs, NoEntry, ForecastError(500),
                                req[r].buoy, outcome, cache, up)
  /\ UNCHANGED <<inFlight, pf>>
  /\ UNCHANGED <<stations, schedVars, clockVars, gridVars, cycVars, dataVars>>

\* Lines 78-83: the 20 s timer of the race rejects.  The getPointForecast it
\* abandons changes no state when it completes (the cache write of line 123
\* comes after the race).
ForecastTimeout(r) ==
  /\ req[r].pc = "forecast"
  /\ ComposeAndReturn(r, req[r].id, req[r].obs, NoEntry, ForecastError(504),
                      req[r].buoy, "timeout", cache,
                      upstream \ {Exchange("req", r, "wave", req[r].id)})
  /\ UNCHANGED <<inFlight, pf>>
  /\ UNCHANGED <<stations, schedVars, clockVars, gridVars, cycVars, dataVars>>

----------------------------------------------------------------------------
(* Bulk prefetcher: the fill of one station in processBatch *)

PfIds == {s.id : s \in StationsInBounds}

\* processBatch builds the forecast key from the catalogue's coordinates as
\* they are (line 69), and passes them on to getPointForecast (line 108).
PrefetchForecastKey(station) == CacheKey("waveModel", <<station.lat, station.lon>>)

\* Lines 97-120: the forecast part of a station's fill, once buoyData is there.
PrefetchForecast(station, c, fl, up) ==
  LET forecastKey == PrefetchForecastKey(station) IN
  IF getCache(c, forecastKey).kind # "none"
  THEN /\ pf' = [pf EXCEPT ![station.id] = "idle"]
       /\ cache' = c
       /\ inFlight' = fl
       /\ upstream' = up
  ELSE /\ forecastKey \notin fl
       /\ ~findModelForLocation(station.lat, station.lon).threw
       /\ pf' = [pf EXCEPT ![station.id] = "wave"]
       /\ cache' = c
       /\ inFlight' = fl \cup {forecastKey}
       /\ upstream' = up \cup {Exchange("pf", 0, "wave", station.id)}

\* Lines 62-95: getOrSet(buoyConfig.key, () => fetchBuoyData(id), ttl); on a
\* miss the producer starts the buoy fetch (fetchBuoyData lines 480-497).
PrefetchStation(station) ==
  /\ pf[station.id] = "idle"
  /\ LET key == CacheKey("buoyData", station.id) IN
     IF getCache(cache, key).kind # "none"
     THEN PrefetchForecast(station, cache, inFlight, upstream)
     ELSE /\ NotFilling(key)
          /\ pf' = [pf EXCEPT ![station.id] = "buoy"]
          /\ inFlight' = inFlight \cup {key}
          /\ upstream' = upstream \cup {Exchange("pf", 0, "buoy", station.id)}
          /\ UNCHANGED cache
  /\ UNCHANGED <<req, last>>
  /\ UNCHANGED <<stations, schedVars, clockVars, gridVars, cycVars, dataVars>>

\* The producer fetchBuoyData returns: on "ok" it has stored combinedData under
\* its own key (line 531) and the fill stores the same object under
\* buoyConfig.key; a null result leaves no entry and skips the forecast.
PrefetchBuoyResponse(station, outcome) ==
  /\ pf[station.id] = "buoy"
  /\ LET key == CacheKey("buoyData", station.id)
         up == upstream \ {Exchange("pf", 0, "buoy", station.id)}
         combinedData == Observation
     IN IF outcome = "ok"
        THEN PrefetchForecast(station,
               [getOrSet(cache, FetchBuoyKey(station.id), combinedData)
                  EXCEPT ![key] = combinedData],
               inFlight \ {key}, up)
        ELSE /\ pf' = [pf EXCEPT ![station.id] = "idle"]
             /\ inFlight' = inFlight \ {key}
             /\ upstream' = up
             /\ UNCHANGED cache
  /\ UNCHANGED <<req, last>>
  /\ UNCHANGED <<stations, schedVars, clockVars, gridVars, cycVars, dataVars>>

\* The producer getPointForecast returns or throws (lines 105-119): a result is
\* stored as it is, an error is logged and not stored.
PrefetchForecastResponse(station, outcome) ==
  /\ pf[station.id] = "wave"
  /\ LET forecastKey == PrefetchForecastKey(station) IN
     /\ cache' = IF outcome = "error" THEN cache
                 ELSE [cache EXCEPT ![forecastKey] = PointForecast(outcome = "ok")]
     /\ inFlight' = inFlight \ {forecastKey}
  /\ pf' = [pf EXCEPT ![station.id] = "idle"]
  /\ upstream' = upstream \ {Exchange("pf", 0, "wave", station.id)}
  /\ UNCHANGED <<req, last>>
  /\ UNCHANGED <<stations, schedVars, clockVars, gridVars, cycVars, dataVars>>

----------------------------------------------------------------------------
(* Environment of the aggregator *)

\* POST /cache/clear
ClearCache ==
  /\ cache' = clearCache(cache)
  /\ UNCHANGED <<inFlight, req, pf, upstream, last>>
  /\ UNCHANGED <<stations, schedVars, clockVars, gridVars, cycVars, dataVars>>

\* An entry reaches its expiry.  Every TTL is at least 61 s (getTimeToNextUpdate)
\* and a request lasts at most 30 s, so no entry expires while a request or a
\* fill that could have written it is still running.
Expire(key) ==
  /\ cache[key].kind # "none"
  /\ \A r \in Reqs : req[r].pc = "idle"
  /\ \A id \in PfIds : pf[id] = "idle"
  /\ cache' = [cache EXCEPT ![key] = NoEntry]
  /\ UNCHANGED <<inFlight, req, pf, upstream, last>>
  /\ UNCHANGED <<stations, schedVars, clockVars, gridVars, cycVars, dataVars>>

BuoyOutcomes == {"ok", "nodata", "neterr"}
ForecastOutcomes == {"ok", "empty", "error"}

InitSched ==
  /\ now = 0
  /\ initStatus = "initializing"
  /\ chain = [startup |-> [st |-> "initial", at |-> 0, age |-> 0],
              sched   |-> [st |-> "off", at |-> 0, age |-> 0]]
  /\ prefetchTimer = "null"
  /\ stopped = FALSE

\* No request and no fill has started.
InitRequests ==
  /\ cache = [k \in Keys |-> NoEntry]
  /\ inFlight = {}
  /\ req = [r \in Reqs |-> IdleReq]
  /\ pf = [id \in PfIds |-> "idle"]
  /\ upstream = {}
  /\ last = NoCall

InitAgg ==
  /\ stations \in Catalogues
  /\ InitRequests

InitClock ==
  /\ clock = 0
  /\ out = NoOut

\* No wave-model function has been called: the point is the first station's.
InitGrid == point = [lat |-> 4280000, lon |-> -7017000]

\* prefetchAllBuoyData has not been called: currentStatus is null (line 12).
InitCycle ==
  /\ cyc = [c \in {"startup", "sched"} |->
              [phase |-> "idle", list |-> <<>>, i |-> 0, buoy |-> 0, fcst |-> 0,
               results |-> <<>>, processed |-> <<>>, elapsed |-> 0,
               threw |-> 0, fcstRuns |-> 0, waiting |-> 0]]
  /\ currentStatus = [status |-> "null"]

\* No upstream response has been parsed.
InitData == data = <<>>

Init == InitAgg /\ InitSched /\ InitClock /\ InitGrid /\ InitCycle /\ InitData

Next ==
  \/ \E r \in Reqs, id \in RequestIds : GetStationData(r, id)
  \/ \E r \in Reqs, o \in BuoyOutcomes : BuoyResponse(r, o)
  \/ \E r \in Reqs : BuoyTimeout(r)
  \/ \E r \in Reqs, o \in ForecastOutcomes : ForecastResponse(r, o)
  \/ \E r \in Reqs : ForecastTimeout(r)
  \/ \E r \in Reqs, o \in BuoyOutcomes : AbandonedBuoyResponse(r, o)
  \/ \E s \in StationsInBounds : PrefetchStation(s)
  \/ \E s \in StationsInBounds, o \in BuoyOutcomes : PrefetchBuoyResponse(s, o)
  \/ \E s \in StationsInBounds, o \in ForecastOutcomes : PrefetchForecastResponse(s, o)
  \/ ClearCache
  \/ \E k \in Keys : Expire(k)

Spec == Init /\ [][Next]_vars

----------------------------------------------------------------------------
(* Timer chains: startupService.js, scheduler.js, app.js *)

TickSeconds == 5 * 60
TicksPerDay == (24 * 3600) \div TickSeconds

CacheHours == 6
ModelRunHours == <<0, 6, 12, 18>>
AvailableAfter(hour) == 5

currentHour(t) == (t * TickSeconds) \div 3600
currentMinute(t) == ((t * TickSeconds) % 3600) \div 60

Min(a, b) == IF a < b THEN a ELSE b

\* cacheManager.getModelRunCacheDuration at hour h, minute m, in seconds
ModelRunCacheDuration(h, m) ==
  LET later == {i \in 1..Len(ModelRunHours) : ModelRunHours[i] > h}
      nextRun == IF later # {}
                 THEN ModelRunHours[CHOOSE i \in later : \A j \in later : i <= j]
                 ELSE ModelRunHours[1]
      hoursUntilNextRun ==
        (IF nextRun > h THEN nextRun - h ELSE 24 - h + nextRun) + AvailableAfter(nextRun)
  IN Min((hoursUntilNextRun * 60 - m) * 60, CacheHours * 3600)

\* cacheManager.getModelRunCacheDuration at tick t
getModelRunCacheDuration(t) == ModelRunCacheDuration(currentHour(t), currentMinute(t))

\* scheduler.getNextModelRun().availableAt at hour h, minute m
NextModelRunAvailableAt(h, m) ==
  LET found == {i \in 1..Len(ModelRunHours) :
                  h * 60 + m < (ModelRunHours[i] + AvailableAfter(ModelRunHours[i])) * 60}
  IN IF found # {}
     THEN LET i == CHOOSE i \in found : \A j \in found : i <= j
          IN ModelRunHours[i] + AvailableAfter(ModelRunHours[i])
     ELSE 24 + AvailableAfter(ModelRunHours[1])

\* scheduler.getNextModelRun().availableAt at tick t
getNextModelRun(t) == NextModelRunAvailableAt(currentHour(t), currentMinute(t))

\* scheduler.scheduleNextPrefetch: msUntilNextRun (lines 44-62) at hour h,
\* minute m
MsUntilNextRun(h, m) ==
  LET availableAt == NextModelRunAvailableAt(h, m)
  IN (IF availableAt > h
      THEN ((availableAt - h) * 3600 - m * 60) * 1000
      ELSE ((24 - h + availableAt) * 3600 - m * 60) * 1000) + 5 * 60 * 1000

\* scheduler.scheduleNextPrefetch: msUntilNextRun at tick t
msUntilNextRun(t) == MsUntilNextRun(currentHour(t), currentMinute(t))

\* The tick at which a timer set at tick t with a delay of ms fires.
FireAt(t, ms) == (t + (ms \div (TickSeconds * 1000))) % TicksPerDay

Armed(at) == [st |-> "armed", at |-> at, age |-> 0]
Running == [st |-> "running", at |-> 0, age |-> 0]
Off == [st |-> "off", at |-> 0, age |-> 0]

\* scheduler line 84: the pending setTimeout(() => scheduleNextPrefetch(), 5 * 60 * 1000)
Recovery(at) == [st |-> "recovery", at |-> at, age |-> 0]
RecoveryDelayMs == 5 * 60 * 1000

Chains == {"startup", "sched"}

\* prefetchAllBuoyData is executing on this chain
InCycle(c) == chain[c].st \in {"initial", "running"}

\* initializeData's prefetch returns (startupService lines 20-39): it arms the
\* startup chain, and startApp (app.js lines 65-69) calls startScheduler.
InitializeDataReturns ==
  /\ initStatus = "initializing"
  /\ chain.startup.st = "initial"
  /\ initStatus' = "ready"
  /\ chain' = [startup |-> Armed(FireAt(now, getModelRunCacheDuration(now) * 1000)),
               sched   |-> Armed(FireAt(now, msUntilNextRun(now)))]
  /\ prefetchTimer' = "set"
  /\ UNCHANGED <<now, stopped>>
  /\ UNCHANGED <<aggVars, clockVars, gridVars, cycVars, dataVars>>

\* initializeData rethrows the error: startApp's catch (app.js lines 71-82)
\* sets the status "failed" and startScheduler is not called.
InitializeDataFails_Rejects ==
  /\ initStatus = "initializing"
  /\ chain.startup.st = "initial"
  /\ initStatus' = "failed"
  /\ chain' = [startup |-> Off, sched |-> Off]
  /\ UNCHANGED <<now, prefetchTimer, stopped>>
  /\ UNCHANGED <<aggVars, clockVars, gridVars, cycVars, dataVars>>

\* loadStations or the initial prefetch throws (startupService lines 40-52):
\* initializeData's catch returns status "degraded" without having armed the
\* startup chain, and startApp (app.js lines 65-69) calls startScheduler.
InitializeDataFails ==
  /\ initStatus = "initializing"
  /\ chain.startup.st = "initial"
  /\ initStatus' = "degraded"
  /\ chain' = [startup |-> Off, sched |-> Armed(FireAt(now, msUntilNextRun(now)))]
  /\ prefetchTimer' = "set"
  /\ UNCHANGED <<now, stopped>>
  /\ UNCHANGED <<aggVars, clockVars, gridVars, cycVars, dataVars>>

\* startupService lines 66-69: the timer fires and the callback starts a cycle.
StartupTimerFires ==
  /\ chain.startup.st = "armed"
  /\ chain.startup.at = now
  /\ chain' = [chain EXCEPT !.startup = Running]
  /\ UNCHANGED <<now, initStatus, prefetchTimer, stopped>>
  /\ UNCHANGED <<aggVars, clockVars, gridVars, cycVars, dataVars>>

\* startupService lines 69-70 and 58-76: the cycle returns, the chain re-arms.
StartupCycleReturns ==
  /\ chain.startup.st = "running"
  /\ chain' = [chain EXCEPT !.startup =
                 Armed(FireAt(now, getModelRunCacheDuration(now) * 1000))]
  /\ UNCHANGED <<now, initStatus, prefetchTimer, stopped>>
  /\ UNCHANGED <<aggVars, clockVars, gridVars, cycVars, dataVars>>

\* scheduler lines 76-79
SchedTimerFires ==
  /\ chain.sched.st = "armed"
  /\ chain.sched.at = now
  /\ chain' = [chain EXCEPT !.sched = Running]
  /\ UNCHANGED <<now, initStatus, prefetchTimer, stopped>>
  /\ UNCHANGED <<aggVars, clockVars, gridVars, cycVars, dataVars>>

\* scheduler line 80 and lines 38-90: the cycle returns and scheduleNextPrefetch
\* clears the (already fired) timer and sets a new one.
SchedCycleReturns ==
  /\ chain.sched.st = "running"
  /\ chain' = [chain EXCEPT !.sched = Armed(FireAt(now, msUntilNextRun(now)))]
  /\ prefetchTimer' = "set"
  /\ UNCHANGED <<now, initStatus, stopped>>
  /\ UNCHANGED <<aggVars, clockVars, gridVars, cycVars, dataVars>>

\* startupService lines 71-74: the cycle throws, the catch calls
\* scheduleNextPrefetch at once.
StartupCycleThrows ==
  /\ chain.startup.st = "running"
  /\ chain' = [chain EXCEPT !.startup =
                 Armed(FireAt(now, getModelRunCacheDuration(now) * 1000))]
  /\ UNCHANGED <<now, initStatus, prefetchTimer, stopped>>
  /\ UNCHANGED <<aggVars, clockVars, gridVars, cycVars, dataVars>>

\* The catch only logs: no timer is set and the chain ends.
SchedCycleThrows_NoTimer ==
  /\ chain.sched.st = "running"
  /\ chain' = [chain EXCEPT !.sched = Off]
  /\ UNCHANGED <<now, initStatus, prefetchTimer, stopped>>
  /\ UNCHANGED <<aggVars, clockVars, gridVars, cycVars, dataVars>>

\* scheduler lines 81-85: the cycle throws, the catch sets the 5-minute timer.
SchedCycleThrows ==
  /\ chain.sched.st = "running"
  /\ chain' = [chain EXCEPT !.sched = Recovery(FireAt(now, RecoveryDelayMs))]
  /\ UNCHANGED <<now, initStatus, prefetchTimer, stopped>>
  /\ UNCHANGED <<aggVars, clockVars, gridVars, cycVars, dataVars>>

\* scheduler line 84 and lines 38-90: the 5-minute timer fires and its callback
\* calls scheduleNextPrefetch, which sets the timer of the next model run.
RecoveryTimerFires ==
  /\ chain.sched.st = "recovery"
  /\ chain.sched.at = now
  /\ chain' = [chain EXCEPT !.sched = Armed(FireAt(now, msUntilNextRun(now)))]
  /\ prefetchTimer' = "set"
  /\ UNCHANGED <<now, initStatus, stopped>>
  /\ UNCHANGED <<aggVars, clockVars, gridVars, cycVars, dataVars>>

\* scheduler lines 103-120: SIGTERM or SIGINT; the handlers are installed when
\* the module is loaded and the process keeps running.
StopScheduler ==
  /\ stopped' = TRUE
  /\ IF prefetchTimer = "set"
     THEN /\ chain' = IF chain.sched.st = "armed"
                      THEN [chain EXCEPT !.sched = Off] ELSE chain
          /\ prefetchTimer' = "null"
     ELSE UNCHANGED <<chain, prefetchTimer>>
  /\ UNCHANGED <<now, initStatus>>
  /\ UNCHANGED <<aggVars, clockVars, gridVars, cycVars, dataVars>>

\* Time passes: a due timer fires first, and a cycle lasts at most
\* MaxCycleTicks ticks.
Tick ==
  /\ \A c \in Chains : chain[c].st \in {"armed", "recovery"} => chain[c].at # now
  /\ \A c \in Chains : InCycle(c) => chain[c].age < MaxCycleTicks
  /\ now' = (now + 1) % TicksPerDay
  /\ chain' = [c \in Chains |->
                 IF InCycle(c) THEN [chain[c] EXCEPT !.age = @ + 1] ELSE chain[c]]
  /\ UNCHANGED <<initStatus, prefetchTimer, stopped>>
  /\ UNCHANGED <<aggVars, clockVars, gridVars, cycVars, dataVars>>

InitAnyTime ==
  /\ now \in 0..(TicksPerDay - 1)
  /\ initStatus = "initializing"
  /\ chain = [startup |-> [st |-> "initial", at |-> 0, age |-> 0], sched |-> Off]
  /\ prefetchTimer = "null"
  /\ stopped = FALSE
  /\ InitAgg
  /\ InitClock
  /\ InitGrid
  /\ InitCycle
  /\ InitData

NextSched ==
  \/ InitializeDataReturns
  \/ InitializeDataFails
  \/ StartupTimerFires
  \/ StartupCycleReturns
  \/ SchedTimerFires
  \/ SchedCycleReturns
  \/ StartupCycleThrows
  \/ SchedCycleThrows
  \/ RecoveryTimerFires
  \/ StopScheduler
  \/ Tick

SpecSched == InitAnyTime /\ [][NextSched]_vars

\* The event loop runs every due timer callback, time passes, and every call
\* of prefetchAllBuoyData settles, by returning or by throwing.
FairSched ==
  /\ WF_vars(Tick)
  /\ WF_vars(InitializeDataReturns \/ InitializeDataFails)
  /\ WF_vars(StartupTimerFires)
  /\ WF_vars(SchedTimerFires)
  /\ WF_vars(RecoveryTimerFires)
  /\ WF_vars(StartupCycleReturns \/ StartupCycleThrows)
  /\ WF_vars(SchedCycleReturns \/ SchedCycleThrows)

SpecSchedFair == InitAnyTime /\ [][NextSched]_vars /\ FairSched

\* ---- app.js: the requests during and after the initialization ----

\* The paths a GET request may carry: the two endpoints of app.js and routes
\* of routes/index.js, one of them unknown to the router.
RequestPaths == {"/health", "/", "/offshore-stations", "/offshore-stations/44098",
                 "/tide-stations", "/unknown"}

\* The middleware lets every request through.
InitializationGate_Open(status) == FALSE

\* app.js lines 43-51: the middleware answers itself while initializing.
InitializationGate(status) == status = "initializing"

\* One GET request runs through the handlers of app.js in their order
\* (lines 29-52): /health, /, then the middleware and the router.
HandleRequest(path) ==
  /\ out' =
       IF path = "/health"
       THEN [fn |-> "request", path |-> path, init |-> initStatus, code |-> 200,
             routed |-> FALSE,
             body |-> IF initStatus = "ready" THEN "ok" ELSE "degraded"]
       ELSE IF path = "/"
       THEN [fn |-> "request", path |-> path, init |-> initStatus, code |-> 200,
             routed |-> FALSE, body |-> "Salty API"]
       ELSE IF InitializationGate(initStatus)
       THEN [fn |-> "request", path |-> path, init |-> initStatus, code |-> 503,
             routed |-> FALSE, body |-> "error"]
       ELSE [fn |-> "request", path |-> path, init |-> initStatus, code |-> 0,
             routed |-> TRUE, body |-> "routes"]
  /\ UNCHANGED <<clock, aggVars, schedVars, gridVars, cycVars, dataVars>>

NextGate ==
  \/ InitializeDataReturns
  \/ InitializeDataFails
  \/ \E path \in RequestPaths : HandleRequest(path)

SpecGate == InitAnyTime /\ [][NextGate]_vars

----------------------------------------------------------------------------
(* Time functions: utils/cacheManager.js, ndbcService.js, waveModelService.js *)

DaySeconds == 24 * 3600

\* The seconds of a minute at which the functions are evaluated.
SampleSeconds == {0, 30, 59}

\* The instants new Date() may give, over one UTC day.
Instants ==
  {h * 3600 + m * 60 + sec : h \in 0..23, m \in 0..59, sec \in SampleSeconds}

getUTCHours(t) == t \div 3600
\* getMinutes() is local time; it equals getUTCMinutes() wherever the zone
\* offset is a whole number of hours.
getUTCMinutes(t) == (t % 3600) \div 60
getUTCSeconds(t) == t % 60

NDBC_UPDATE_MINUTES == <<26, 56>>
BUFFER_TIME == 5 * 60

\* Array.prototype.find over a sequence: the first element satisfying the test
\* is the element at the least index of `found`; orElse stands for `|| x`.
FindFirst(seq, found, orElse) ==
  IF found # {}
  THEN seq[CHOOSE i \in found : \A j \in found : i <= j]
  ELSE orElse

\* getTimeToNextNDBCUpdate with "currentMinute < min" in the search, without
\* the buffer
getTimeToNextNDBCUpdate_NoBuffer(t) ==
  LET curMinute == getUTCMinutes(t)
      curSecond == getUTCSeconds(t)
      nextUpdateMinute ==
        FindFirst(NDBC_UPDATE_MINUTES,
                  {i \in 1..Len(NDBC_UPDATE_MINUTES) :
                     curMinute < NDBC_UPDATE_MINUTES[i]},
                  NDBC_UPDATE_MINUTES[1])
  IN IF nextUpdateMinute > curMinute
     THEN (nextUpdateMinute - curMinute) * 60 - curSecond
     ELSE (60 - curMinute + nextUpdateMinute) * 60 - curSecond

\* cacheManager.getTimeToNextNDBCUpdate: the TTL of getCacheConfig("buoyData")
getTimeToNextNDBCUpdate(t) ==
  LET curMinute == getUTCMinutes(t)
      curSecond == getUTCSeconds(t)
      nextUpdateMinute ==
        FindFirst(NDBC_UPDATE_MINUTES,
                  {i \in 1..Len(NDBC_UPDATE_MINUTES) :
                     curMinute < NDBC_UPDATE_MINUTES[i] - BUFFER_TIME \div 60},
                  NDBC_UPDATE_MINUTES[1])
  IN IF nextUpdateMinute > curMinute
     THEN (nextUpdateMinute - curMinute) * 60 - curSecond
     ELSE (60 - curMinute + nextUpdateMinute) * 60 - curSecond

\* cacheManager.getTimeToNextModelRun: the TTL of getCacheConfig("waveModel").
\* adjustedHour < availableAt - BUFFER_TIME / 3600 compares doubles; with these
\* run hours it is true exactly when the minutes compare as below.
getTimeToNextModelRun(t) ==
  LET h == getUTCHours(t)
      m == getUTCMinutes(t)
      availableAt ==
        FindFirst([i \in 1..Len(ModelRunHours) |->
                     ModelRunHours[i] + AvailableAfter(ModelRunHours[i])],
                  {i \in 1..Len(ModelRunHours) :
                     h * 60 + m <
                       (ModelRunHours[i] + AvailableAfter(ModelRunHours[i])) * 60
                         - BUFFER_TIME \div 60},
                  24 + AvailableAfter(ModelRunHours[1]))
  IN IF availableAt > h
     THEN (availableAt - h) * 3600 - m * 60 - getUTCSeconds(t)
     ELSE (24 - h + availableAt) * 3600 - m * 60 - getUTCSeconds(t)

\* getTimeToNextUpdate with "min >= currentMinute" in the search
getTimeToNextUpdate_Inclusive(t) ==
  LET curMinute == getUTCMinutes(t)
      nextUpdateMinute ==
        FindFirst(NDBC_UPDATE_MINUTES,
                  {i \in 1..Len(NDBC_UPDATE_MINUTES) :
                     NDBC_UPDATE_MINUTES[i] >= curMinute},
                  NDBC_UPDATE_MINUTES[1])
      secondsToNextUpdate ==
        IF nextUpdateMinute >= curMinute
        THEN (nextUpdateMinute - curMinute) * 60 - getUTCSeconds(t)
        ELSE (60 - curMinute + nextUpdateMinute) * 60 - getUTCSeconds(t)
  IN secondsToNextUpdate + 60

\* ndbcService getTimeToNextUpdate: the TTL of fetchBuoyData's cache write
getTimeToNextUpdate(t) ==
  LET curMinute == getUTCMinutes(t)
      nextUpdateMinute ==
        FindFirst(NDBC_UPDATE_MINUTES,
                  {i \in 1..Len(NDBC_UPDATE_MINUTES) :
                     NDBC_UPDATE_MINUTES[i] > curMinute},
                  NDBC_UPDATE_MINUTES[1])
      secondsToNextUpdate ==
        IF nextUpdateMinute > curMinute
        THEN (nextUpdateMinute - curMinute) * 60 - getUTCSeconds(t)
        ELSE (60 - curMinute + nextUpdateMinute) * 60 - getUTCSeconds(t)
  IN secondsToNextUpdate + 60

\* cacheManager.getNDBCCacheDuration
getNDBCCacheDuration(t) ==
  LET curMinute == getUTCMinutes(t)
      nextUpdate ==
        FindFirst(NDBC_UPDATE_MINUTES,
                  {i \in 1..Len(NDBC_UPDATE_MINUTES) :
                     NDBC_UPDATE_MINUTES[i] > curMinute},
                  NDBC_UPDATE_MINUTES[1])
      minutesUntilUpdate ==
        IF nextUpdate > curMinute
        THEN nextUpdate - curMinute
        ELSE 60 - curMinute + nextUpdate
  IN minutesUntilUpdate * 60 + 60

\* getCacheConfig(type, identifier).ttl
getCacheConfigTtl(type, t) ==
  IF type = "buoyData" THEN getTimeToNextNDBCUpdate(t)
  ELSE IF type = "waveModel" THEN getTimeToNextModelRun(t)
  ELSE CacheHours * 3600

\* A variant of getAvailableModelRun that takes a run only after the hour of
\* its availability has passed.
getAvailableModelRun_Strict(t) ==
  LET found == {i \in 1..Len(ModelRunHours) :
                  getUTCHours(t) > ModelRunHours[i] + AvailableAfter(ModelRunHours[i])}
  IN IF found # {}
     THEN [day |-> 0, hour |-> ModelRunHours[CHOOSE i \in found : \A j \in found : j <= i]]
     ELSE [day |-> -1, hour |-> ModelRunHours[Len(ModelRunHours)]]

\* waveModelService.getAvailableModelRun: the last run of the reversed list
\* whose availableAt hour is reached; day 0 is today (UTC), -1 yesterday.
getAvailableModelRun(t) ==
  LET found == {i \in 1..Len(ModelRunHours) :
                  getUTCHours(t) >= ModelRunHours[i] + AvailableAfter(ModelRunHours[i])}
  IN IF found # {}
     THEN [day |-> 0, hour |-> ModelRunHours[CHOOSE i \in found : \A j \in found : j <= i]]
     ELSE [day |-> -1, hour |-> ModelRunHours[Len(ModelRunHours)]]

\* getCacheConfig(type, identifier) is called at clock.
GetCacheConfig(type) ==
  /\ out' = [fn |-> "getCacheConfig", type |-> type, at |-> clock,
             ttl |-> getCacheConfigTtl(type, clock)]
  /\ UNCHANGED <<clock, aggVars, schedVars, gridVars, cycVars, dataVars>>

\* getModelRunCacheDuration() is called at clock (startupService line 59).
GetModelRunCacheDuration ==
  /\ out' = [fn |-> "getModelRunCacheDuration", at |-> clock,
             ttl |-> ModelRunCacheDuration(getUTCHours(clock), getUTCMinutes(clock))]
  /\ UNCHANGED <<clock, aggVars, schedVars, gridVars, cycVars, dataVars>>

\* getNDBCCacheDuration() is called at clock.
GetNDBCCacheDuration ==
  /\ out' = [fn |-> "getNDBCCacheDuration", at |-> clock,
             ttl |-> getNDBCCacheDuration(clock)]
  /\ UNCHANGED <<clock, aggVars, schedVars, gridVars, cycVars, dataVars>>

\* fetchBuoyData lines 530-531: the TTL of its cache write at clock.
GetTimeToNextUpdate ==
  /\ out' = [fn |-> "getTimeToNextUpdate", at |-> clock,
             ttl |-> getTimeToNextUpdate(clock)]
  /\ UNCHANGED <<clock, aggVars, schedVars, gridVars, cycVars, dataVars>>

\* scheduler.scheduleNextPrefetch is called at clock: the delay of its timer.
ScheduleNextPrefetch ==
  /\ out' = [fn |-> "scheduleNextPrefetch", at |-> clock,
             ms |-> MsUntilNextRun(getUTCHours(clock), getUTCMinutes(clock))]
  /\ UNCHANGED <<clock, aggVars, schedVars, gridVars, cycVars, dataVars>>

\* startupService.scheduleNextPrefetch is called at clock: the delay of its
\* timer (lines 59-60).
StartupScheduleNextPrefetch ==
  /\ out' = [fn |-> "startupScheduleNextPrefetch", at |-> clock,
             ms |-> ModelRunCacheDuration(getUTCHours(clock), getUTCMinutes(clock)) * 1000]
  /\ UNCHANGED <<clock, aggVars, schedVars, gridVars, cycVars, dataVars>>

\* getStationData on a cold miss at clock with both fetches succeeding: the
\* TTLs of buoyConfig (line 14) and forecastConfig (lines 63-66), and the TTL
\* handed to the getOrSet of the response (line 198).
CacheEnvelope ==
  LET buoyConfigTtl == getCacheConfigTtl("buoyData", clock)
      forecastConfigTtl == getCacheConfigTtl("waveModel", clock)
  IN /\ out' = [fn |-> "envelope", at |-> clock, ttl |-> buoyConfigTtl,
                obsTtl |-> buoyConfigTtl, fcstTtl |-> forecastConfigTtl]
     /\ UNCHANGED <<clock, aggVars, schedVars, gridVars, cycVars, dataVars>>

\* getAvailableModelRun() is called at clock (getPointForecast line 104).
GetAvailableModelRun ==
  /\ out' = [fn |-> "getAvailableModelRun", at |-> clock,
             run |-> getAvailableModelRun(clock)]
  /\ UNCHANGED <<clock, aggVars, schedVars, gridVars, cycVars, dataVars>>

InitAnyInstant ==
  /\ clock \in Instants
  /\ out = NoOut
  /\ InitAgg
  /\ InitSched
  /\ InitGrid
  /\ InitCycle
  /\ InitData

NextClock ==
  \/ \E type \in {"buoyData", "waveModel"} : GetCacheConfig(type)
  \/ GetModelRunCacheDuration
  \/ GetNDBCCacheDuration
  \/ GetTimeToNextUpdate
  \/ CacheEnvelope
  \/ GetAvailableModelRun
  \/ ScheduleNextPrefetch
  \/ StartupScheduleNextPrefetch

SpecClock == InitAnyInstant /\ [][NextClock]_vars

----------------------------------------------------------------------------
(* Wave-model grid functions: waveModelService.js *)

\* Latitudes on, next to and between the edges of a model's rectangle
EdgeLats(m) ==
  {m.latStart - 1, m.latStart, (m.latStart + m.latEnd) \div 2, m.latEnd, m.latEnd + 1}

\* Longitudes on, next to and between the edges of a model's rectangle, as
\* degrees east (0..360) and as negative degrees west
EdgeLons(m) ==
  LET east == {m.lonStart - 1, m.lonStart, (m.lonStart + m.lonEnd) \div 2,
               m.lonEnd, m.lonEnd + 1}
  IN east \cup {lon - 36000000 : lon \in east}

\* The ends of the longitude ranges -180..180 and 0..360 and their neighbours
EndLons == {-18000000, -17999999, -1, 0, 1, 17999999, 18000000, 35999999, 36000000}

\* The points the functions are applied to: the edges, corners and interiors
\* of the three rectangles, their outer neighbours, the catalogue stations and
\* the point 33.0, -117.5.
Points ==
  UNION {{[lat |-> lat, lon |-> lon] : lat \in EdgeLats(Models[i]), lon \in EdgeLons(Models[i])}
           : i \in 1..Len(Models)}
    \cup {[lat |-> st.lat, lon |-> st.lon] : st \in KnownStations}
    \cup {[lat |-> 3300000, lon |-> -11750000]}
    \cup {[lat |-> 3300000, lon |-> lon] : lon \in EndLons}

\* findModelForLocation(lat, lon) is called with the point.
FindModelForLocation ==
  /\ out' = [fn |-> "findModelForLocation", lat |-> point.lat, lon |-> point.lon,
             result |-> findModelForLocation(point.lat, point.lon)]
  /\ UNCHANGED <<point, clock, aggVars, schedVars, cycVars, dataVars>>

\* getPointForecast(lat, lon) up to its axios.get (lines 99-146): the model, the
\* grid indices and the constraint of each variable in the URL, written
\* [from:to][latIdx][lonIdx] before encodeURIComponent; or the Error of
\* findModelForLocation, which the catch rethrows.
GetPointForecast ==
  LET found == findModelForLocation(point.lat, point.lon)
  IN /\ out' =
          IF found.threw
          THEN [fn |-> "getPointForecast", lat |-> point.lat, lon |-> point.lon,
                threw |-> TRUE]
          ELSE LET idx == getGridLocation(point.lat, point.lon, found.model)
               IN [fn |-> "getPointForecast", lat |-> point.lat, lon |-> point.lon,
                   threw |-> FALSE, model |-> found.model,
                   latIdx |-> idx.latIdx, lonIdx |-> idx.lonIdx,
                   params |-> [i \in 1..Len(Variables) |->
                                 [v |-> Variables[i], from |-> 0,
                                  to |-> ForecastDays * PeriodsPerDay - 1,
                                  latIdx |-> idx.latIdx, lonIdx |-> idx.lonIdx]]]
     /\ UNCHANGED <<point, clock, aggVars, schedVars, cycVars, dataVars>>

\* The normalization of the point's longitude (findModelForLocation line 14,
\* getGridLocation line 33, isStationInModelBounds line 23), applied once and
\* twice, and the containment tests of the router and of the prefetcher on
\* the longitude as given and on the normalized one.
NormalizeLongitude ==
  LET normalizedLon == normalizeLon(point.lon)
  IN /\ out' = [fn |-> "normalizeLon", lat |-> point.lat, lon |-> point.lon,
                normalizedLon |-> normalizedLon,
                twice |-> normalizeLon(normalizedLon),
                found |-> ~findModelForLocation(point.lat, point.lon).threw,
                foundNormalized |-> ~findModelForLocation(point.lat, normalizedLon).threw,
                inBounds |-> isStationInModelBounds(point),
                inBoundsNormalized |->
                  isStationInModelBounds([lat |-> point.lat, lon |-> normalizedLon])]
     /\ UNCHANGED <<point, clock, aggVars, schedVars, cycVars, dataVars>>

InitAnyPoint ==
  /\ point \in Points
  /\ InitAgg
  /\ InitSched
  /\ InitClock
  /\ InitCycle
  /\ InitData

NextGrid ==
  \/ FindModelForLocation
  \/ GetPointForecast
  \/ NormalizeLongitude

SpecGrid == InitAnyPoint /\ [][NextGrid]_vars

----------------------------------------------------------------------------
(* Prefetch cycle: buoyPrefetchService.js prefetchAllBuoyData, processBatches *)
(* and processBatch.  The stations of a wave are counted by the stage they   *)
(* are in; a wave's stations answer in any order.                            *)

\* Coordinates of a catalogue station inside a model grid, and of one outside
\* all of them
InGridPlace == CHOOSE s \in KnownStations : isStationInModelBounds(s)
OffGridPlace == CHOOSE s \in KnownStations : ~isStationInModelBounds(s)

\* A catalogue of size stations: the k-th has id k, and lies outside every
\* grid iff outEvery > 0 and k is a multiple of outEvery.
CatalogueOf(size, outEvery) ==
  {[id |-> k,
    lat |-> IF outEvery > 0 /\ k % outEvery = 0 THEN OffGridPlace.lat ELSE InGridPlace.lat,
    lon |-> IF outEvery > 0 /\ k % outEvery = 0 THEN OffGridPlace.lon ELSE InGridPlace.lon]
     : k \in 1..size}

CycleCatalogues == {CatalogueOf(size, outEvery) : size \in 0..MaxStations, outEvery \in {0, 3}}

\* Instants at which a cycle runs: the planned TTLs are smallest at 00:20:59
\* (observation) and 04:54:59 (forecast).
CycleInstants == {20 * 60 + 59, 4 * 3600 + 54 * 60 + 59}

\* ndbcService.stations as an array: the k-th entry has id k.
StationArray == [k \in 1..Cardinality(stations) |-> CHOOSE s \in stations : s.id = k]

\* prefetchAllBuoyData lines 185-187: the ids of stationsInBounds, in order
FilteredIds ==
  LET stationsInBounds == SelectSeq(StationArray, isStationInModelBounds)
  IN [k \in 1..Len(stationsInBounds) |-> stationsInBounds[k].id]

\* processBatches with start = i + j * (BATCH_SIZE - 1)
BatchSlice_Overlapping(list, i, j) ==
  LET start == i + j * (BATCH_SIZE - 1)
      end == Min(start + BATCH_SIZE, Len(list))
  IN IF start >= Len(list) THEN <<>> ELSE SubSeq(list, start + 1, end)

\* processBatches lines 164-165: stations.slice(start, start + BATCH_SIZE)
BatchSlice(list, i, j) ==
  LET start == i + j * BATCH_SIZE
      end == Min(start + BATCH_SIZE, Len(list))
  IN IF start >= Len(list) THEN <<>> ELSE SubSeq(list, start + 1, end)

\* processBatches lines 162-171: the stations of the batches j, j+1, ... of the
\* wave at i, in the order of batchResults.flat()
RECURSIVE WaveFrom(_, _, _)
WaveFrom(list, i, j) ==
  IF j >= CONCURRENT_BATCHES THEN <<>>
  ELSE BatchSlice(list, i, j) \o WaveFrom(list, i, j + 1)

Wave(list, i) == WaveFrom(list, i, 0)

\* processBatch lines 74-77, with the TTLs getCacheConfig plans at instant t
TooCloseToUpdate(t) ==
  \/ getCacheConfigTtl("buoyData", t) < 300
  \/ getCacheConfigTtl("waveModel", t) < 300

\* processBatches lines 170-172: Promise.all has resolved, the results are
\* pushed and the BATCH_DELAY timer is set.
WaveSettled(rec) ==
  [rec EXCEPT !.phase = "delay", !.elapsed = 0,
              !.results = @ \o Wave(rec.list, rec.i)]

\* processBatches lines 161-170 and processBatch lines 61-95: the batches of the
\* wave at i are started; every station runs up to its first wait, the get-or-fill
\* of the observation (its .txt and .spec requests), or returns "skipped".
LaunchWave(rec, i) ==
  LET wave == Wave(rec.list, i)
      started ==
        [rec EXCEPT !.i = i, !.phase = "wave",
                    !.processed =
                      [id \in DOMAIN rec.processed |->
                         rec.processed[id] + Cardinality({k \in 1..Len(wave) : wave[k] = id})]]
  IN IF TooCloseToUpdate(clock)
     THEN WaveSettled(started)
     ELSE [started EXCEPT !.buoy = Len(wave)]

\* A get-or-fill on a key whose fill is in flight waits for that fill: the wave
\* at i is not started while another call has fills of the same stations in
\* flight.
NoSharedFill(c, i) ==
  \A d \in DOMAIN cyc : d # c => ~(cyc[d].phase = "wave" /\ cyc[d].i = i)

\* processBatch lines 122-126
Succeeded(status) ==
  [status EXCEPT !.successCount = @ + 1, !.processedCount = @ + 1]

\* processBatch lines 135-143; errors is the length of the error list
Failed(status) ==
  [status EXCEPT !.failureCount = @ + 1, !.processedCount = @ + 1, !.errors = @ + 1]

\* The last station of a wave has returned its result.
AfterStation(rec) ==
  IF rec.buoy = 0 /\ rec.fcst = 0 /\ rec.waiting = 0 THEN WaveSettled(rec) ELSE rec

\* prefetchAllBuoyData lines 179-200 called by chain c, up to the first wait:
\* the filter, the reset of currentStatus and the first wave; with no station
\* in bounds it runs to its end (lines 202-226).
StartCycle(c) ==
  /\ cyc[c].phase \in {"idle", "returned"}
  /\ NoSharedFill(c, 0)
  /\ LET list == FilteredIds
         fresh == [phase |-> "idle", list |-> list, i |-> 0, buoy |-> 0, fcst |-> 0,
                   results |-> <<>>, processed |-> [id \in {s.id : s \in stations} |-> 0],
                   elapsed |-> 0, threw |-> 0, fcstRuns |-> 0, waiting |-> 0]
         running == [status |-> "running", totalStations |-> Len(list),
                     processedCount |-> 0, successCount |-> 0, failureCount |-> 0,
                     errors |-> 0]
     IN IF Len(list) = 0
        THEN /\ cyc' = [cyc EXCEPT ![c] = [fresh EXCEPT !.phase = "returned"]]
             /\ currentStatus' = [running EXCEPT !.status = "completed"]
        ELSE /\ cyc' = [cyc EXCEPT ![c] = LaunchWave(fresh, 0)]
             /\ currentStatus' = running
  /\ UNCHANGED <<aggVars, schedVars, clockVars, gridVars, dataVars>>

\* A station's observation get-or-fill settles (processBatch lines 91-143):
\* with data the forecast get-or-fill starts (one request); without data the
\* station is a success; when the fill throws the station is a failure.
BuoyAnswers(c, outcome) ==
  /\ cyc[c].phase = "wave"
  /\ cyc[c].buoy > 0
  /\ IF outcome = "ok"
     THEN /\ cyc' = [cyc EXCEPT ![c] = [@ EXCEPT !.buoy = @ - 1, !.fcst = @ + 1,
                                                  !.fcstRuns = @ + 1]]
          /\ UNCHANGED currentStatus
     ELSE IF outcome = "throws"
     THEN /\ cyc' = [cyc EXCEPT ![c] =
                       AfterStation([@ EXCEPT !.buoy = @ - 1, !.threw = @ + 1])]
          /\ currentStatus' = Failed(currentStatus)
     ELSE /\ cyc' = [cyc EXCEPT ![c] = AfterStation([@ EXCEPT !.buoy = @ - 1])]
          /\ currentStatus' = Succeeded(currentStatus)
  /\ UNCHANGED <<aggVars, schedVars, clockVars, gridVars, dataVars>>

\* A station's forecast get-or-fill settles (lines 105-133): an error is only
\* logged, the station is a success.
ForecastAnswers(c, outcome) ==
  /\ cyc[c].phase = "wave"
  /\ cyc[c].fcst > 0
  /\ cyc' = [cyc EXCEPT ![c] = AfterStation([@ EXCEPT !.fcst = @ - 1])]
  /\ currentStatus' = Succeeded(currentStatus)
  /\ UNCHANGED <<aggVars, schedVars, clockVars, gridVars, dataVars>>

\* MsStep milliseconds pass while the BATCH_DELAY timer is pending.
TimePasses(c) ==
  /\ cyc[c].phase = "delay"
  /\ cyc[c].elapsed < BATCH_DELAY
  /\ cyc' = [cyc EXCEPT ![c].elapsed = @ + MsStep]
  /\ UNCHANGED currentStatus
  /\ UNCHANGED <<aggVars, schedVars, clockVars, gridVars, dataVars>>

\* processBatches resumes although the BATCH_DELAY timer has not fired.
NextWaveReady_NoDelay(rec) == rec.phase = "delay"

\* processBatches line 172: the BATCH_DELAY timer has fired.
NextWaveReady(rec) == rec.phase = "delay" /\ rec.elapsed >= BATCH_DELAY

\* The BATCH_DELAY timer fires (processBatches lines 172-174, 161): the next
\* wave is started, or processBatches returns and prefetchAllBuoyData sets the
\* status to "completed" (lines 202-226).
DelayElapses(c) ==
  /\ NextWaveReady(cyc[c])
  /\ LET i == cyc[c].i + BATCH_SIZE * CONCURRENT_BATCHES
     IN IF i < Len(cyc[c].list)
        THEN /\ NoSharedFill(c, i)
             /\ cyc' = [cyc EXCEPT ![c] = LaunchWave(@, i)]
             /\ UNCHANGED currentStatus
        ELSE /\ cyc' = [cyc EXCEPT ![c].phase = "returned"]
             /\ currentStatus' = [currentStatus EXCEPT !.status = "completed"]
  /\ UNCHANGED <<aggVars, schedVars, clockVars, gridVars, dataVars>>

\* What the observation get-or-fill of a station can give
FillOutcomes == BuoyOutcomes \cup {"throws"}

\* One call of prefetchAllBuoyData at a time, on an empty cache
InitOneCycle ==
  /\ stations \in CycleCatalogues
  /\ InitRequests
  /\ clock \in CycleInstants
  /\ out = NoOut
  /\ InitSched
  /\ InitGrid
  /\ InitCycle
  /\ InitData

NextCycle ==
  \/ StartCycle("startup")
  \/ \E outcome \in FillOutcomes : BuoyAnswers("startup", outcome)
  \/ \E outcome \in ForecastOutcomes : ForecastAnswers("startup", outcome)
  \/ TimePasses("startup")
  \/ DelayElapses("startup")

SpecCycle == InitOneCycle /\ [][NextCycle]_vars

\* The calls of the two timer chains, while the observation service gives no
\* data: nothing is stored, so no call finds an entry another one wrote.
InitOverlap ==
  /\ stations \in {CatalogueOf(size, 0) : size \in 1..MaxOverlapStations}
  /\ InitRequests
  /\ InitClock
  /\ InitSched
  /\ InitGrid
  /\ InitCycle
  /\ InitData

NextOverlap ==
  \/ \E c \in Chains : StartCycle(c)
  \/ \E c \in Chains, outcome \in FillOutcomes \ {"ok"} : BuoyAnswers(c, outcome)
  \/ \E c \in Chains : TimePasses(c)
  \/ \E c \in Chains : DelayElapses(c)

SpecOverlap == InitOverlap /\ [][NextOverlap]_vars

\* The producer fetchBuoyData of a station's observation fill reads its own
\* key with getOrSet(cacheKey) (ndbcService line 486) while that fill is in
\* flight: a get-or-fill on a key whose fill is in flight awaits that fill, so
\* the producer awaits the fill that awaits the producer, and the station's
\* promise never settles.
FetchBuoyDataAwaitsOwnFill(c) ==
  /\ cyc[c].phase = "wave"
  /\ cyc[c].buoy > 0
  /\ cyc' = [cyc EXCEPT ![c] = [@ EXCEPT !.buoy = @ - 1, !.waiting = @ + 1]]
  /\ UNCHANGED currentStatus
  /\ UNCHANGED <<aggVars, schedVars, clockVars, gridVars, dataVars>>

\* One call of prefetchAllBuoyData; the producer's read of its own key either
\* misses, and the requests go out, or awaits the fill in flight.
NextFill ==
  \/ StartCycle("startup")
  \/ FetchBuoyDataAwaitsOwnFill("startup")
  \/ \E outcome \in FillOutcomes : BuoyAnswers("startup", outcome)
  \/ \E outcome \in ForecastOutcomes : ForecastAnswers("startup", outcome)
  \/ TimePasses("startup")
  \/ DelayElapses("startup")

\* Every upstream call returns or times out, time passes and the BATCH_DELAY
\* timer fires.
FairFill ==
  /\ WF_vars(\E outcome \in FillOutcomes : BuoyAnswers("startup", outcome))
  /\ WF_vars(\E outcome \in ForecastOutcomes : ForecastAnswers("startup", outcome))
  /\ WF_vars(TimePasses("startup"))
  /\ WF_vars(DelayElapses("startup"))

SpecFill == InitOneCycle /\ [][NextFill]_vars /\ FairFill

----------------------------------------------------------------------------
(* Observation trends: ndbcService.js parseValue, fetchMetData, analyzeTrends *)

\* parseValue lines 167-170: the null it returns for "MM", "" and non-numbers
Null == -1

\* A null operand of a JavaScript subtraction counts as 0.
ToNumber(x) == IF x = Null THEN 0 ELSE x

\* JavaScript truthiness of a parsed sample: neither null nor 0
Truthy(x) == x # Null /\ x # 0

\* analyzeTrends line 196: observations.slice(0, 8)
WindowRows == 8

\* Parsed rows (parseDataLine lines 319-345): wave height, dominant period and
\* wind speed, each a number or null
ObservationRows == [height : {Null, 1, 3}, dominantPeriod : {Null, 8}, speed : {Null, 5}]

\* The data lines of a response, most recent first
RowWindows == UNION {[1..n -> ObservationRows] : n \in 0..MaxRows}

\* A trend field that is null, and one that carries a change
Absent == [present |-> FALSE, change |-> 0]
Field(change) == [present |-> TRUE, change |-> change]

\* fetchMetData line 564: .filter((data) => data.waves.height || data.wind.speed)
HasWaveOrWind(row) == Truthy(row.height) \/ Truthy(row.speed)

\* analyzeTrends returning null (line 197)
NoTrends == [isNull |-> TRUE, waveHeight |-> Absent, wavePeriod |-> Absent, wind |-> Absent]

\* analyzeTrends (lines 195-317): the change of each quantity and whether its
\* field is an object or null
analyzeTrends(observations) ==
  LET periods == SubSeq(observations, 1, Min(WindowRows, Len(observations)))
  IN IF Len(periods) < 2 THEN NoTrends
     ELSE
       LET firstRow == periods[Len(periods)]
           lastRow == periods[1]
           valid == {k \in 1..Len(periods) : periods[k].height # Null}
           lastValidWaveData == periods[CHOOSE k \in valid : \A j \in valid : k <= j]
           firstValidWaveData == periods[CHOOSE k \in valid : \A j \in valid : k >= j]
           waveHeightChange == lastValidWaveData.height - firstValidWaveData.height
           periodChange == ToNumber(lastValidWaveData.dominantPeriod)
                             - ToNumber(firstValidWaveData.dominantPeriod)
           windSpeedChange == ToNumber(lastRow.speed) - ToNumber(firstRow.speed)
       IN [isNull |-> FALSE,
           waveHeight |-> IF valid # {} THEN Field(waveHeightChange) ELSE Absent,
           wavePeriod |-> IF valid # {} /\ Truthy(lastValidWaveData.dominantPeriod)
                          THEN Field(periodChange) ELSE Absent,
           wind |-> Field(windSpeedChange)]

\* fetchMetData lines 558-573 on the parsed rows: the rows without wave height
\* and wind speed are dropped, and the trends are computed from the rest.
FetchMetData ==
  LET recentObservations == SelectSeq(data, HasWaveOrWind)
  IN /\ out' = IF Len(recentObservations) = 0
               THEN [fn |-> "fetchMetData", isNull |-> TRUE]
               ELSE [fn |-> "fetchMetData", isNull |-> FALSE,
                     window |-> recentObservations,
                     trends |-> analyzeTrends(recentObservations)]
     /\ UNCHANGED <<data, point, clock, aggVars, schedVars, cycVars>>

InitAnyRows ==
  /\ data \in RowWindows
  /\ InitAgg
  /\ InitSched
  /\ InitClock
  /\ InitGrid
  /\ InitCycle

NextTrend == FetchMetData

SpecTrend == InitAnyRows /\ [][NextTrend]_vars

\* ---- waveModelService.getPointForecast: the period records ----

\* A step the response holds no sample for (a hole of the parsed array).
Undefined == -2

\* JavaScript truthiness of a parsed sample: a number other than 0.
TruthySample(x) == x # Undefined /\ x # 0

\* CONFIG.forecast.days * CONFIG.forecast.periodsPerDay
ForecastSteps == ForecastDays * PeriodsPerDay

\* The time zone of the process, in hours: local time is UTC + std, and
\* shift more from dstAt hours after the run date's UTC midnight on.
Zones ==
  { [std |-> 0, shift |-> 0, dstAt |-> 0],
    [std |-> 1, shift |-> 0, dstAt |-> 0],
    [std |-> -5, shift |-> 1, dstAt |-> 55],
    [std |-> -4, shift |-> -1, dstAt |-> 54] }

\* Date.prototype.getHours: the local wall-clock hour count of a UTC instant.
LocalTime(zone, u) == u + zone.std + (IF u >= zone.dstAt THEN zone.shift ELSE 0)

\* Date.prototype.setHours: the UTC instant of a local wall-clock hour count;
\* a repeated wall-clock hour is the earlier instant, a skipped one is read
\* with the offset before the transition.
UtcOfLocal(zone, w) ==
  IF w - zone.std < zone.dstAt THEN w - zone.std
  ELSE IF w - zone.std - zone.shift >= zone.dstAt THEN w - zone.std - zone.shift
  ELSE w - zone.std

\* The samples of one step: primary wave height, wind-wave height and the
\* three swell heights, in tenths of a metre.
StepSamples ==
  [htsgwsfc : {Undefined, 0, 20}, wvhgtsfc : {Undefined, 0, 5},
   swell : {<<Undefined, Undefined, Undefined>>, <<10, Undefined, Undefined>>,
            <<0, 10, Undefined>>, <<10, 0, 5>>}]

DefaultSample == [htsgwsfc |-> 20, wvhgtsfc |-> 5, swell |-> <<10, 8, Undefined>>]

\* The lengths of the parsed series and the steps whose sample is varied.
SeriesLengths == {0, 1, 20, 55, 56}
VariedSteps == {0, 1, 19, 55}

\* parseModelData: the parsed series, entry i + 1 holding step i.
ParsedSeries ==
  { [j \in 1..n |-> IF j = a + 1 THEN sample ELSE DefaultSample] :
      n \in SeriesLengths, a \in VariedSteps, sample \in StepSamples }

SampleAt(series, i) ==
  IF i + 1 <= Len(series) THEN series[i + 1]
  ELSE [htsgwsfc |-> Undefined, wvhgtsfc |-> Undefined,
        swell |-> <<Undefined, Undefined, Undefined>>]

\* The record pushed for step i; times are hours after the run date's UTC
\* midnight.
PeriodRecord(series, zone, i) ==
  LET smp == SampleAt(series, i)
  IN [step |-> i,
      time |-> UtcOfLocal(zone, LocalTime(zone, 0) + (i * 24) \div PeriodsPerDay),
      height |-> smp.htsgwsfc,
      windWave |-> TruthySample(smp.wvhgtsfc),
      swells |-> SelectSeq(<<1, 2, 3>>, LAMBDA k : TruthySample(smp.swell[k]))]

RECURSIVE PeriodsFrom(_, _, _)
PeriodsFrom(series, zone, i) ==
  IF i >= ForecastSteps THEN <<>>
  ELSE IF SampleAt(series, i).htsgwsfc = Undefined
       THEN PeriodsFrom(series, zone, i + 1)
       ELSE <<PeriodRecord(series, zone, i)>> \o PeriodsFrom(series, zone, i + 1)

\* getPointForecast from the parsed response on.
GetPointForecastPeriods ==
  /\ out' = [fn |-> "getPointForecastPeriods",
             forecasts |-> PeriodsFrom(data.parsedData, data.zone, 0)]
  /\ UNCHANGED <<data, point, clock, aggVars, schedVars, cycVars>>

InitAnyResponse ==
  /\ data \in [parsedData : ParsedSeries, zone : Zones]
  /\ InitAgg /\ InitSched /\ InitClock /\ InitGrid /\ InitCycle

NextForecast == GetPointForecastPeriods

SpecForecast == InitAnyResponse /\ [][NextForecast]_vars

----------------------------------------------------------------------------
(* Properties *)

InCatalogue(id) == \E s \in stations : s.id = id
InGrid(id) == \E s \in stations : s.id = id /\ isStationInModelBounds(s)

\* The exchanges of one kind that running getStationData calls have in flight
\* for a station.
RequestExchanges(id, kind) ==
  {u \in upstream : u.by = "req" /\ u.id = id /\ u.kind = kind}

\* C1: getStationData calls for one station that overlap while the cache holds
\* no entry for it have at most one buoy fetch and at most one forecast fetch
\* in flight between them.
C1_SingleFlight ==
  \A id \in RequestIds :
    /\ Cardinality(RequestExchanges(id, "buoy")) <= 1
    /\ Cardinality(RequestExchanges(id, "wave")) <= 1

\* C2: a getStationData call made while the cache holds an envelope under the
\* station's key returns exactly that envelope, starts no upstream exchange
\* and leaves the cache as it is.
C2_FreshEnvelopeServed ==
  [][\A r \in Reqs, id \in RequestIds :
       (GetStationData(r, id) /\ cache[CacheKey("buoyData", id)].kind = "envelope")
         => /\ last' = Returned(id, cache[CacheKey("buoyData", id)], TRUE, "none", "none")
            /\ upstream' = upstream
            /\ cache' = cache
            /\ req' = req]_vars

\* A call has been served an envelope from the cache.
C2_Witness ==
  /\ last.fromCache
  /\ last.result.kind = "envelope"
  /\ cache[CacheKey("buoyData", last.id)] = last.result

\* C3: every value getStationData returns from the cache is an envelope
\* (id, observations, units), never a raw observation object.
C3_CacheReturnsEnvelope ==
  last.fromCache =>
    /\ last.result.kind = "envelope"
    /\ last.result.id = last.id

\* C4: for a catalogue station outside all model grids whose buoy fetch
\* succeeded, getStationData returns an envelope with the observation and
\* without any forecast field.
C4_OutOfGridOmitsForecast ==
  (InCatalogue(last.id) /\ ~InGrid(last.id) /\ last.buoy = "ok") =>
    /\ last.result.kind = "envelope"
    /\ last.result.observations
    /\ last.result.forecast = "absent"

\* C5: for a station in a grid whose buoy fetch succeeded and whose forecast
\* fetch failed (error or 20 s deadline), getStationData returns an envelope
\* with the observation and a forecast field holding only the error stub.
C5_ForecastFailureNonFatal ==
  (InGrid(last.id) /\ last.buoy = "ok" /\ last.fcst \in {"error", "timeout"}) =>
    /\ last.result.kind = "envelope"
    /\ last.result.observations
    /\ last.result.forecast = "error"
    /\ last.result.errorCode = (IF last.fcst = "timeout" THEN 504 ELSE 500)

\* A call whose buoy fetch succeeded and whose forecast fetch failed has returned.
C5_Witness ==
  /\ InGrid(last.id)
  /\ last.buoy = "ok"
  /\ last.fcst \in {"error", "timeout"}
  /\ last.result.kind = "envelope"

\* C6: when the buoy fetch fails getStationData fails, with 404 when no valid
\* observation row exists, 502 on a network error or 5xx, 504 on the 10 s
\* deadline.
C6_BuoyFailureKinds ==
  /\ last.buoy \in {"nodata", "neterr", "timeout"} => last.result.kind = "error"
  /\ last.buoy = "nodata" => last.result = Failure(404)
  /\ last.buoy = "neterr" => last.result = Failure(502)
  /\ last.buoy = "timeout" => last.result = Failure(504)

\* C7: a getStationData call for an id that is not in the catalogue fails with
\* NotFound, whatever the observation service answers.
C7_UnknownStationNotFound ==
  (last # NoCall /\ ~InCatalogue(last.id)) => last.result = Failure(404)

\* C8: no cache entry holds a failure or an envelope carrying the forecast
\* error stub.
C8_NoFailureCached ==
  \A k \in Keys :
    /\ cache[k].kind # "error"
    /\ ~(cache[k].kind = "envelope" /\ cache[k].forecast = "error")

\* C9: at every instant at most one prefetch cycle is in progress.
C9_OneCycleAtATime == Cardinality({c \in Chains : InCycle(c)}) <= 1

\* C10: once stopScheduler has run, no prefetch timer is pending.
C10_NoTimerAfterStop == stopped => \A c \in Chains : chain[c].st # "armed"

\* C11: on a cold miss where both fetches succeed the envelope is stored with
\* a TTL equal to the minimum of the observation TTL and the forecast TTL.
C11_EnvelopeTtlIsMin ==
  out.fn = "envelope" => out.ttl = Min(out.obsTtl, out.fcstTtl)

\* C12: every TTL computed for a cache write is at most 6 hours.
C12_TtlAtMostSixHours ==
  out.fn \in {"getCacheConfig", "getModelRunCacheDuration", "getTimeToNextUpdate"}
    => out.ttl <= CacheHours * 3600

\* The first instant after t at which the observation service publishes
\* (minute 26 or 56, second 0).
NextPublish(t) ==
  LET s == t % 3600
      first == NDBC_UPDATE_MINUTES[1] * 60
      second == NDBC_UPDATE_MINUTES[2] * 60
  IN IF s < first THEN t - s + first
     ELSE IF s < second THEN t - s + second
     ELSE t - s + 3600 + first

\* C13: an entry written with the TTL of getCacheConfig("buoyData") expires no
\* later than 60 s after the first publish instant that follows the write.
C13_ObservationExpiresByNextPublish ==
  (out.fn = "getCacheConfig" /\ out.type = "buoyData")
    => out.at + out.ttl <= NextPublish(out.at) + 60

\* The first instant after t at which a model run becomes available
\* (05:00, 11:00, 17:00, 23:00 UTC).
NextAvailability(t) ==
  LET h == getUTCHours(t)
      found == {i \in 1..Len(ModelRunHours) :
                  h < ModelRunHours[i] + AvailableAfter(ModelRunHours[i])}
      atHour == FindFirst([i \in 1..Len(ModelRunHours) |->
                             ModelRunHours[i] + AvailableAfter(ModelRunHours[i])],
                          found,
                          24 + ModelRunHours[1] + AvailableAfter(ModelRunHours[1]))
  IN atHour * 3600

\* C14: an entry written with the TTL of getCacheConfig("waveModel") expires no
\* later than 5 minutes after the first availability instant that follows the
\* write.
C14_ForecastExpiresByNextRun ==
  (out.fn = "getCacheConfig" /\ out.type = "waveModel")
    => out.at + out.ttl <= NextAvailability(out.at) + BUFFER_TIME

\* The instant at which a run (day, hour) becomes available: its nominal hour
\* plus availableAfter.
AvailabilityInstant(run) ==
  run.day * DaySeconds + (run.hour + AvailableAfter(run.hour)) * 3600

\* The cycle that follows a run: the next hour of the list, or the first hour
\* of the next day.
FollowingRun(run) ==
  LET later == {i \in 1..Len(ModelRunHours) : ModelRunHours[i] > run.hour}
  IN IF later # {}
     THEN [day |-> run.day, hour |-> FindFirst(ModelRunHours, later, 0)]
     ELSE [day |-> run.day + 1, hour |-> ModelRunHours[1]]

\* C20: the run getAvailableModelRun returns at an instant is available at
\* that instant, and the cycle following it is not available yet.
C20_LatestAvailableRun ==
  out.fn = "getAvailableModelRun" =>
    /\ AvailabilityInstant(out.run) <= out.at
    /\ out.at < AvailabilityInstant(FollowingRun(out.run))

\* At 10:59:59 UTC the run is today's 00 cycle.
C20_Witness ==
  /\ out.fn = "getAvailableModelRun"
  /\ out.at = 10 * 3600 + 59 * 60 + 59
  /\ out.run = [day |-> 0, hour |-> 0]

\* The prefetcher's two entries for a catalogue station are in the cache: the
\* observation under buoyConfig.key and a forecast with periods under the
\* prefetcher's forecastConfig.key.
Prefetched(id) ==
  /\ InGrid(id)
  /\ cache[CacheKey("buoyData", id)].kind = "observation"
  /\ cache[PrefetchForecastKey(getStationById(id))] = PointForecast(TRUE)

\* C15: a getStationData call for an in-grid station whose observation and
\* forecast the prefetcher has filled, both fresh, starts no upstream exchange
\* and returns an envelope carrying the forecast periods.
C15_PrefetchedStationServed ==
  [][\A r \in Reqs, id \in RequestIds :
       (GetStationData(r, id) /\ Prefetched(id))
         => /\ upstream' = upstream
            /\ last'.result.kind = "envelope"
            /\ last'.result.forecast = "days"]_vars

\* C16: while the buoy fetch of a request for an in-grid station without a
\* cached forecast is in flight, the request's forecast fetch is in flight too.
C16_FetchesRunConcurrently ==
  \A r \in Reqs :
    (/\ req[r].pc = "buoy"
     /\ InGrid(req[r].id)
     /\ LET st == getStationById(req[r].id)
        IN cache[CacheKey("waveModel", <<st.lat, normalizeLon(st.lon)>>)].kind = "none")
      => Exchange("req", r, "wave", req[r].id) \in upstream

\* C17: the completion of a buoy fetch whose getStationData call has already
\* timed out writes no cache entry.
C17_TimedOutFetchWritesNothing ==
  [][\A r \in Reqs, o \in BuoyOutcomes :
       AbandonedBuoyResponse(r, o) => cache' = cache]_vars

\* C18: a transient failure of the forecast request (error, or a body without
\* periods) before the 3rd attempt does not end the fetch: the request is sent
\* again and the call keeps waiting for the forecast.
C18_ForecastRetried ==
  [][\A r \in Reqs, o \in {"error", "empty"} :
       (ForecastResponse(r, o) /\ req[r].attempts < MaxRetries)
         => /\ req'[r].pc = "forecast"
            /\ req'[r].attempts = req[r].attempts + 1
            /\ Exchange("req", r, "wave", req[r].id) \in upstream']_vars

\* C19: getPointForecast is never called for a station outside every model
\* grid: no getStationData call has its forecast fetch rejected by
\* findModelForLocation, and no forecast exchange is in flight for a station
\* that is not in a grid.
C19_ForecastFetcherOnlyInGrid ==
  /\ last.fcst # "outOfGrid"
  /\ \A u \in upstream : u.kind = "wave" => InGrid(u.id)

\* C22: when a scheduled cycle throws, a timer is set to fire 5 minutes later,
\* and when that timer fires the next cycle starts.
C22_RecoveryStartsCycle ==
  [][/\ (SchedCycleThrows \/ StartupCycleThrows) =>
          \A c \in Chains :
            chain'[c] # chain[c] =>
              /\ chain'[c].st \in {"armed", "recovery"}
              /\ chain'[c].at = FireAt(now, RecoveryDelayMs)
     /\ RecoveryTimerFires => chain'.sched.st = "running"]_vars

\* C23: every timer set for a scheduled prefetch has a positive delay equal to
\* the time from the start of the current minute to the first availability
\* instant after now plus 5 minutes; it fires no earlier than that instant and
\* at most 6 minutes after it.
C23_PrefetchTimerDelay ==
  out.fn \in {"scheduleNextPrefetch", "startupScheduleNextPrefetch"} =>
    LET available == NextAvailability(out.at)
        fires == out.at + out.ms \div 1000
    IN /\ out.ms > 0
       /\ out.ms = (available - (out.at - getUTCSeconds(out.at)) + BUFFER_TIME) * 1000
       /\ fires >= available
       /\ fires <= available + 6 * 60

\* C24: getTimeToNextUpdate returns the seconds from now to the first publish
\* instant (minute 26 or 56, second 0) after the current minute, plus 60; the
\* result lies between 61 and 1860, and at hh:26:00 and hh:56:00 it is 1860.
C24_TimeToNextUpdate ==
  out.fn = "getTimeToNextUpdate" =>
    /\ out.ttl = NextPublish(out.at) - out.at + 60
    /\ out.ttl >= 61
    /\ out.ttl <= 30 * 60 + 60
    /\ (out.at % 3600) \in {NDBC_UPDATE_MINUTES[i] * 60 : i \in 1..Len(NDBC_UPDATE_MINUTES)}
         => out.ttl = 30 * 60 + 60

C24_Witness ==
  /\ out.fn = "getTimeToNextUpdate"
  /\ out.at % 3600 = NDBC_UPDATE_MINUTES[1] * 60
  /\ out.ttl = 1860

\* The closed rectangle of model i holds the point (lat, lon), the longitude
\* taken in degrees east.
InRectangle(i, lat, lon) ==
  LET east == IF lon < 0 THEN lon + 36000000 ELSE lon
  IN /\ Models[i].latStart <= lat /\ lat <= Models[i].latEnd
     /\ Models[i].lonStart <= east /\ east <= Models[i].lonEnd

\* C29: findModelForLocation returns the first model, in the order pacific,
\* atlantic, gulf, whose closed rectangle holds the point, edges included; when
\* no rectangle holds it, it throws an error carrying the coordinates as given.
C29_FirstContainingModel ==
  out.fn = "findModelForLocation" =>
    IF \E i \in 1..Len(Models) : InRectangle(i, out.lat, out.lon)
    THEN /\ ~out.result.threw
         /\ \E i \in 1..Len(Models) :
              /\ out.result.model = Models[i]
              /\ InRectangle(i, out.lat, out.lon)
              /\ \A j \in 1..(i - 1) : ~InRectangle(j, out.lat, out.lon)
    ELSE /\ out.result.threw
         /\ out.result.message = <<"outside all model bounds", out.lat, out.lon>>

\* A point on the northern edge of the gulf rectangle, which the atlantic
\* rectangle holds too: atlantic is returned.
C29_Witness ==
  /\ out.fn = "findModelForLocation"
  /\ out.lat = Models[3].latEnd
  /\ InRectangle(2, out.lat, out.lon)
  /\ InRectangle(3, out.lat, out.lon)
  /\ ~out.result.threw
  /\ out.result.model.id = "atlantic"

\* C30: for a point inside the rectangle of its model the grid indices lie in
\* 0..size-1, every one of the 19 variables is requested with
\* [0:55][latIdx][lonIdx], and 33.0, -117.5 gives [48][195] on wcoast.0p16.
C30_GridIndicesInRange ==
  (out.fn = "getPointForecast" /\ ~out.threw) =>
    /\ 0 <= out.latIdx /\ out.latIdx <= out.model.latSize - 1
    /\ 0 <= out.lonIdx /\ out.lonIdx <= out.model.lonSize - 1
    /\ Len(out.params) = 19
    /\ \A i \in 1..Len(out.params) :
         /\ out.params[i].from = 0
         /\ out.params[i].to = 55
         /\ out.params[i].latIdx = out.latIdx
         /\ out.params[i].lonIdx = out.lonIdx
    /\ (out.lat = 3300000 /\ out.lon = -11750000) =>
         /\ out.model.name = "wcoast.0p16"
         /\ out.latIdx = 48
         /\ out.lonIdx = 195

C30_Witness ==
  /\ out.fn = "getPointForecast"
  /\ ~out.threw
  /\ out.lat = 3300000 /\ out.lon = -11750000
  /\ out.params[1] = [v |-> "htsgwsfc", from |-> 0, to |-> 55, latIdx |-> 48, lonIdx |-> 195]

\* Upstream HTTP requests in flight for the prefetch calls: two for every
\* station waiting for its observation (.txt and .spec), one for every station
\* waiting for its forecast.
RequestsInFlight ==
  LET of(c) == 2 * cyc[c].buoy + cyc[c].fcst
  IN of("startup") + of("sched")

\* C21: at every instant of a prefetch cycle at most 15 upstream HTTP requests
\* are in flight.
C21_AtMostFifteenRequests ==
  RequestsInFlight <= BATCH_SIZE * CONCURRENT_BATCHES

\* Stations of the call of chain c that are being processed
BeingProcessed(c) == cyc[c].buoy + cyc[c].fcst

\* C25: within a prefetch cycle a wave is started only after every station of
\* the previous wave has settled and the 1000 ms timer set after it has fired,
\* and never more than 15 stations of the cycle are being processed.
C25_WavesInTurn ==
  [][\A c \in Chains :
       /\ (cyc[c].phase # "idle" /\ cyc'[c].i > cyc[c].i) =>
            /\ BeingProcessed(c) = 0
            /\ Len(cyc[c].results) = cyc'[c].i
            /\ cyc[c].phase = "delay"
            /\ cyc[c].elapsed >= 1000
       /\ BeingProcessed(c)' <= 15]_vars

\* The second wave of a catalogue of more than 15 stations is in progress.
C25_Witness ==
  /\ cyc.startup.phase = "wave"
  /\ cyc.startup.i = 15
  /\ BeingProcessed("startup") > 0
  /\ Len(cyc.startup.results) = 15

\* C26: a prefetch cycle processes every station inside some grid exactly once
\* and no station outside all grids, whatever the size of the catalogue; the
\* result list has one entry for each station of the filtered list.
C26_EveryStationOnce ==
  \A c \in Chains :
    /\ cyc[c].phase # "idle" =>
         \A s \in stations : cyc[c].processed[s.id] <= (IF isStationInModelBounds(s) THEN 1 ELSE 0)
    /\ cyc[c].phase = "returned" =>
         /\ \A s \in stations :
              cyc[c].processed[s.id] = (IF isStationInModelBounds(s) THEN 1 ELSE 0)
         /\ Len(cyc[c].results) = Cardinality(StationsInBounds)
         /\ {cyc[c].results[k] : k \in 1..Len(cyc[c].results)} = {s.id : s \in StationsInBounds}

\* A cycle over 16 or more stations in bounds, a number that is no multiple of
\* 5, has returned; the catalogue holds stations outside the grids or 17 inside.
C26_Witness ==
  /\ cyc.startup.phase = "returned"
  /\ Len(cyc.startup.list) > 15
  /\ Len(cyc.startup.list) % 5 # 0
  /\ Len(cyc.startup.results) = Len(cyc.startup.list)

\* C27: a failing station does not stop the cycle; when the cycle ends every
\* station has its result, the status is "completed", failureCount is the
\* number of stations of the cycle whose fill threw, and the error list has
\* as many entries.
C27_FailuresCounted ==
  [][\A c \in Chains :
       (cyc[c].phase # "returned" /\ cyc'[c].phase = "returned") =>
         /\ Len(cyc'[c].results) = Len(cyc'[c].list)
         /\ currentStatus'.status = "completed"
         /\ currentStatus'.failureCount = cyc'[c].threw
         /\ currentStatus'.errors = cyc'[c].threw]_vars

\* C28: a station whose planned observation or forecast TTL is below 300 s is
\* skipped, without a request, and counted in the status; a station whose
\* planned TTLs are both at least 300 s has both get-or-fills run.
C28_SkipOrFillBoth ==
  \A c \in Chains :
    cyc[c].phase = "returned" =>
      IF TooCloseToUpdate(clock)
      THEN /\ cyc[c].fcstRuns = 0
           /\ currentStatus.processedCount = Len(cyc[c].list)
      ELSE cyc[c].fcstRuns = Len(cyc[c].list)

\* C31: the normalization maps every longitude of -180..180 and of 0..360
\* into [0, 360), applying it twice gives the same as applying it once, and the
\* containment tests give the same for a longitude and for its normalization.
C31_NormalizationIntoRange ==
  (out.fn = "normalizeLon" /\ out.lon >= -18000000 /\ out.lon <= 36000000) =>
    /\ 0 <= out.normalizedLon
    /\ out.normalizedLon < 36000000
    /\ out.twice = out.normalizedLon
    /\ out.found = out.foundNormalized
    /\ out.inBounds = out.inBoundsNormalized

\* The trend field the statement gives for quantity q in a window: the most
\* recent valid sample minus the oldest valid one, absent with fewer than two.
ExpectedTrend(window, q) ==
  LET valid == {k \in 1..Len(window) : window[k][q] # Null}
  IN IF Cardinality(valid) < 2 THEN Absent
     ELSE Field(window[CHOOSE k \in valid : \A j \in valid : k <= j][q]
                  - window[CHOOSE k \in valid : \A j \in valid : k >= j][q])

\* C32: each trend delta is the most recent valid sample minus the oldest
\* valid sample of its quantity in the window, and the field is absent when
\* fewer than two valid samples of the quantity exist.
C32_TrendDeltas ==
  (out.fn = "fetchMetData" /\ ~out.isNull) =>
    /\ out.trends.waveHeight = ExpectedTrend(out.window, "height")
    /\ out.trends.wavePeriod = ExpectedTrend(out.window, "dominantPeriod")
    /\ out.trends.wind = ExpectedTrend(out.window, "speed")

\* C33: getPointForecast emits at most 56 records in increasing time order,
\* exactly one for each step whose primary wave height sample is present and
\* none for a step where it is missing; the record of step i is timed at the
\* run date plus i x 3 h in UTC; a wind-wave or swell partition appears in a
\* record only when its own height sample is present at that step.
C33_PeriodRecords ==
  out.fn = "getPointForecastPeriods" =>
    LET f == out.forecasts
    IN /\ Len(f) <= 56
       /\ \A j \in 1..Len(f) : \A k \in 1..Len(f) : j < k => f[j].time < f[k].time
       /\ \A i \in 0..55 :
            Cardinality({j \in 1..Len(f) : f[j].step = i})
              = IF SampleAt(data.parsedData, i).htsgwsfc # Undefined THEN 1 ELSE 0
       /\ \A j \in 1..Len(f) :
            /\ f[j].time = f[j].step * 3
            /\ f[j].windWave =>
                 SampleAt(data.parsedData, f[j].step).wvhgtsfc # Undefined
            /\ \A n \in 1..Len(f[j].swells) :
                 SampleAt(data.parsedData, f[j].step).swell[f[j].swells[n]] # Undefined

\* C34: whenever a prefetch status exists, also with cycles started by both
\* timer chains, processedCount = successCount + failureCount, failureCount is
\* the number of entries of errors and processedCount <= totalStations; when a
\* cycle in which no station was skipped reaches "completed", processedCount =
\* totalStations and the counters count the stations of that cycle only.
C34_StatusCounters ==
  [][/\ currentStatus'.status # "null" =>
          /\ currentStatus'.processedCount
               = currentStatus'.successCount + currentStatus'.failureCount
          /\ currentStatus'.failureCount = currentStatus'.errors
          /\ currentStatus'.processedCount <= currentStatus'.totalStations
     /\ \A c \in Chains :
          (/\ cyc[c].phase # "returned"
           /\ cyc'[c].phase = "returned"
           /\ ~TooCloseToUpdate(clock)) =>
            /\ currentStatus'.status = "completed"
            /\ currentStatus'.processedCount = currentStatus'.totalStations
            /\ currentStatus'.processedCount = Len(cyc'[c].list)
            /\ currentStatus'.failureCount = cyc'[c].threw]_vars

\* C35: while the scheduler has not been stopped the prefetch chain never
\* dies: after every scheduled cycle, whether it returns or throws, a timer is
\* eventually armed, and a further cycle eventually starts.
C35_ChainNeverDies ==
  \A c \in Chains :
    /\ (chain[c].st = "running") ~> (stopped \/ chain[c].st = "armed")
    /\ (chain[c].st = "armed") ~> (stopped \/ chain[c].st = "running")

\* A scheduled cycle has thrown and the scheduler has not been stopped: the
\* 5-minute timer is pending.
C35_Witness == chain.sched.st = "recovery" /\ ~stopped

C37_EveryModelSelectable ==
  out.fn = "findModelForLocation" =>
    \A i \in 1..Len(Models) :
      \E p \in Points :
        LET found == findModelForLocation(p.lat, p.lon)
        IN ~found.threw /\ found.model.id = Models[i].id

\* C38: at every instant of the day the TTLs getCacheConfig returns for
\* "buoyData" and for "waveModel" are at least 300 s, so processBatch's test
\* ttl < 300 is false and no station is skipped.
C38_TtlAtLeast300 ==
  (out.fn = "getCacheConfig" /\ out.type \in {"buoyData", "waveModel"}) =>
    /\ out.ttl >= 300
    /\ ~TooCloseToUpdate(out.at)

\* The least TTL of each type has been returned: 301 s, one second before the
\* search moves on to the next update.
C38_Witness ==
  /\ out.fn = "getCacheConfig"
  /\ out.ttl = 301
  /\ \/ out.type = "buoyData" /\ out.at % 3600 = 20 * 60 + 59
     \/ out.type = "waveModel" /\ out.at = 4 * 3600 + 54 * 60 + 59

====
